---- MODULE Spec2Model ----
(***************************************************************************)
(* Model of execute.py: the YAML action-script interpreter (ScriptOptions, *)
(* ScriptExecutor) and the top-level run _main.                            *)
(*                                                                         *)
(* All times are integers in tenths of a second: 0.5 s is 5, 1.2 s is 12,  *)
(* 2 s is 20, the 10 s warm-up is 100.  Dictionaries are functions whose   *)
(* DOMAIN is the set of keys, so Python's `k in d` is `k \in DOMAIN d`.    *)
(*                                                                         *)
(* The coroutine call chain is an explicit stack of frames (top = last).   *)
(* An awaited collaborator call (button_push, asyncio.sleep) is an effect: *)
(* it is appended to `trace` when issued and stays in `inflight` until it  *)
(* completes; the awaiting frame resumes only on completion.               *)
(***************************************************************************)
EXTENDS Integers, Sequences, FiniteSets, TLC

VARIABLES script, pc, session, closes, warmup, Exec, stack, trace, inflight, clock

vars == <<script, pc, session, closes, warmup, Exec, stack, trace, inflight, clock>>

-----------------------------------------------------------------------------
(* Bounds of the model *)

\* repeat counts range over 0..MaxCount
MaxCount == 2
\* no effect is issued once the trace holds MaxTrace effects
MaxTrace == 10
\* wall-clock time that may pass during a push or before a time.time() read
MaxDrift == 1

(* Program constants *)

\* ScriptOptions.__init__: self.Interval = 0.5
DefaultInterval == 5
\* _main: await asyncio.sleep(10)
WarmupDelay == 100

-----------------------------------------------------------------------------
(* Script documents the run is given *)

EmptyDict == [k \in {} |-> 0]

PressA == [press |-> [key |-> "A"]]
PressB == [press |-> [key |-> "B"]]
PressNoKey == [press |-> [hold |-> 1]]
Sleep2 == [sleep |-> 20]
Sleep1 == [sleep |-> 10]
Unknown == [wait |-> 1]
PressAndSleep == [press |-> [key |-> "A"], sleep |-> 20]
NoKeyAndSleep == [press |-> [hold |-> 1], sleep |-> 20]
PressAndRepeat ==
    [press |-> [key |-> "A"], repeat |-> [sequence |-> <<PressB>>, count |-> 1]]

Leaves ==
    {PressA, PressNoKey, Sleep2, Unknown, PressAndSleep, NoKeyAndSleep,
     PressAndRepeat}

Counts == 0..MaxCount
Durations == {0, 12}

InnerSeqs ==
    { <<>>, <<PressB>>, <<Unknown>>, <<PressB, Sleep1>>,
      <<PressNoKey, [repeat |-> [count |-> 1]]>>,
      <<[repeat |-> [sequence |-> <<PressB>>, count |-> 2]]>> }

RepeatPayloads ==
         {[sequence |-> s] : s \in InnerSeqs}
    \cup {[sequence |-> s, count |-> c] : s \in InnerSeqs, c \in Counts}
    \cup {[sequence |-> s, duration |-> d] : s \in InnerSeqs, d \in Durations}
    \cup {[sequence |-> s, count |-> c, duration |-> d] :
              s \in {<<PressB>>}, c \in Counts, d \in Durations}
    \cup {[count |-> c] : c \in Counts}
    \cup {[duration |-> d] : d \in Durations}
    \cup {[label |-> 1]}

Repeats == {[repeat |-> p] : p \in RepeatPayloads}
             \cup {[repeat |-> [sequence |-> <<PressB>>], sleep |-> 20]}

Nodes == Leaves \cup Repeats

\* every sequence of at most two nodes
TopSeqs == {<<>>} \cup {<<n>> : n \in Nodes} \cup {<<n, m>> : n \in Nodes, m \in Nodes}

\* the scenario of the documentation: press A, sleep 2, repeat [press B] x 3
Script7 ==
    [sequence |-> <<PressA, Sleep2,
                    [repeat |-> [sequence |-> <<PressB>>, count |-> 3]]>>]

OptionDicts ==
    {EmptyDict, [interval |-> 12], [unrelated |-> 1],
     [interval |-> 12, unrelated |-> 1], [interval |-> 0]}

OptSeqs == { <<PressA>>, <<PressA, Sleep2>>,
             <<[repeat |-> [sequence |-> <<PressB>>, count |-> 2]]>> }

Scripts ==
         {[sequence |-> s] : s \in TopSeqs}
    \cup {Script7}
    \cup {[options |-> o, sequence |-> s] : o \in OptionDicts, s \in OptSeqs}
    \cup {[options |-> o] : o \in OptionDicts}
    \cup {EmptyDict, [name |-> 1]}

-----------------------------------------------------------------------------
(* ScriptOptions *)

\* faulty variant: the default interval is one second
ScriptOptionsOneSecond == [Interval |-> 10]

ScriptOptions == [Interval |-> DefaultInterval]

\* faulty variant: the key is looked up under the attribute's name
fromDictWrongKey(data) ==
    IF "Interval" \in DOMAIN data
    THEN [ScriptOptions EXCEPT !.Interval = data["Interval"]]
    ELSE ScriptOptions

fromDict(data) ==
    IF "interval" \in DOMAIN data
    THEN [ScriptOptions EXCEPT !.Interval = data["interval"]]
    ELSE ScriptOptions

\* ScriptExecutor.__init__
ScriptExecutor == [Options |-> ScriptOptions, CtrlState |-> "None"]

-----------------------------------------------------------------------------
(* Effects and frames *)

Push(key) == [op |-> "push", key |-> key, sec |-> 0]
Delay(sec) == [op |-> "delay", key |-> "", sec |-> sec]

\* a frame of the await chain.  t0, tn and chk are history fields: the trace
\* length when the frame was entered, the trace length when its for loop last
\* bound a node, and the time read by its last duration check that let an
\* iteration start (i is then 1)
Frame(fn, arg) ==
    [fn |-> fn, arg |-> arg, pc |-> "start", i |-> 0, Begin |-> 0,
     t0 |-> Len(trace), tn |-> Len(trace), chk |-> 0]

Top == stack[Len(stack)]
Below == SubSeq(stack, 1, Len(stack) - 1)
Running(fn, at) ==
    /\ pc = "exec"
    /\ stack # <<>>
    /\ Top.fn = fn
    /\ Top.pc = at

\* the top frame returns to its caller; the outermost returns to _main
Return ==
    /\ stack' = Below
    /\ pc' = IF Len(stack) = 1 THEN "close" ELSE pc

Call(frame) == stack' = Append(stack, frame)
Goto(at) == stack' = Append(Below, [Top EXCEPT !.pc = at])
CallFrom(caller, frame) == stack' = Append(Append(Below, caller), frame)

\* an awaited collaborator call is started
Issue(effect) ==
    /\ Len(trace) < MaxTrace
    /\ trace' = Append(trace, effect)
    /\ inflight' = inflight \cup {Len(trace) + 1}

\* the awaited call is the last one issued
Awaited == Len(trace)

\* asyncio.sleep(sec) lasts sec seconds, or no time when sec <= 0
Elapse(sec) == clock' = clock + (IF sec > 0 THEN sec ELSE 0)

-----------------------------------------------------------------------------
Init ==
    /\ script \in Scripts
    /\ pc = "connect"
    /\ session = "none"
    /\ closes = 0
    /\ warmup = "none"
    /\ Exec = ScriptExecutor
    /\ stack = <<>>
    /\ trace = <<>>
    /\ inflight = {}
    /\ clock = 0

-----------------------------------------------------------------------------
(* _main *)

\* faulty variant: the warm-up delay is left out
mainConnectNoWarmup ==
    /\ pc = "connect"
    /\ session' = "open"
    /\ pc' = "setup"
    /\ UNCHANGED <<script, closes, warmup, Exec, stack, trace, inflight, clock>>

\* lines 78-83: create_hid_server establishes the session
mainConnect ==
    /\ pc = "connect"
    /\ session' = "open"
    /\ pc' = "warmup"
    /\ UNCHANGED <<script, closes, warmup, Exec, stack, trace, inflight, clock>>

\* lines 88-89: the warm-up delay is started
mainWarmup ==
    /\ pc = "warmup"
    /\ warmup' = "pending"
    /\ pc' = "warming"
    /\ UNCHANGED <<script, session, closes, Exec, stack, trace, inflight, clock>>

\* line 89: the warm-up delay completes
mainWarmupDone ==
    /\ pc = "warming"
    /\ warmup' = "done"
    /\ Elapse(WarmupDelay)
    /\ pc' = "setup"
    /\ UNCHANGED <<script, session, closes, Exec, stack, trace, inflight>>

\* lines 91-95
mainSetup ==
    /\ pc = "setup"
    /\ Exec' = [Options |-> IF "options" \in DOMAIN script
                            THEN fromDict(script["options"])
                            ELSE ScriptExecutor.Options,
                CtrlState |-> "controller_state"]
    /\ pc' = "run"
    /\ UNCHANGED <<script, session, closes, warmup, stack, trace, inflight, clock>>

\* faulty variant: a script without a sequence returns before the close
mainRunEarlyReturn ==
    /\ pc = "run"
    /\ IF "sequence" \in DOMAIN script
       THEN /\ Call(Frame("executeSequence", script["sequence"]))
            /\ pc' = "exec"
       ELSE /\ pc' = "done"
            /\ UNCHANGED stack
    /\ UNCHANGED <<script, session, closes, warmup, Exec, trace, inflight, clock>>

\* lines 97-98
mainRun ==
    /\ pc = "run"
    /\ IF "sequence" \in DOMAIN script
       THEN /\ Call(Frame("executeSequence", script["sequence"]))
            /\ pc' = "exec"
       ELSE /\ pc' = "close"
            /\ UNCHANGED stack
    /\ UNCHANGED <<script, session, closes, warmup, Exec, trace, inflight, clock>>

\* lines 100-101
mainClose ==
    /\ pc = "close"
    /\ closes' = closes + 1
    /\ session' = "closed"
    /\ pc' = "done"
    /\ UNCHANGED <<script, warmup, Exec, stack, trace, inflight, clock>>

-----------------------------------------------------------------------------
(* ScriptExecutor.executeSequence *)

\* faulty variant: the list is walked from its end
LoopNodeReversed(seq_list, i) == seq_list[Len(seq_list) - i]

\* the node the for loop binds in its (i+1)-th iteration
LoopNode(seq_list, i) == seq_list[i + 1]

\* faulty variant: the repeat tag is tested before the press tag
HandlerRepeatFirst(node) ==
    IF "repeat" \in DOMAIN node THEN "executeNodeRepeat"
    ELSE IF "press" \in DOMAIN node THEN "executeNodePress"
    ELSE IF "sleep" \in DOMAIN node THEN "executeNodeSleep"
    ELSE ""

\* lines 70-75: the handler a node is dispatched to, "" when it has no known tag
Handler(node) ==
    IF "press" \in DOMAIN node THEN "executeNodePress"
    ELSE IF "repeat" \in DOMAIN node THEN "executeNodeRepeat"
    ELSE IF "sleep" \in DOMAIN node THEN "executeNodeSleep"
    ELSE ""

Payload(node) ==
    IF "press" \in DOMAIN node THEN node["press"]
    ELSE IF "repeat" \in DOMAIN node THEN node["repeat"]
    ELSE node["sleep"]

\* lines 69-75: one iteration of the for loop
executeSequenceNode ==
    /\ Running("executeSequence", "start")
    /\ Top.i < Len(Top.arg)
    /\ LET node == LoopNode(Top.arg, Top.i)
           self == [Top EXCEPT !.i = @ + 1, !.tn = Len(trace)]
       IN  IF Handler(node) = ""
           THEN stack' = Append(Below, self)
           ELSE CallFrom(self, Frame(Handler(node), Payload(node)))
    /\ UNCHANGED <<script, pc, session, closes, warmup, Exec, trace, inflight, clock>>

\* line 69: the list is exhausted
executeSequenceReturn ==
    /\ Running("executeSequence", "start")
    /\ Top.i >= Len(Top.arg)
    /\ Return
    /\ UNCHANGED <<script, session, closes, warmup, Exec, trace, inflight, clock>>

-----------------------------------------------------------------------------
(* ScriptExecutor.executeNodePress *)

\* faulty variant: the delay after a push ignores the script's options
PressDelayDefault(options) == DefaultInterval

\* line 62: the delay after a push
PressDelay(options) == options.Interval

\* faulty variant: a press without a key still waits for the interval
executeNodePressAlwaysSleeps ==
    /\ Running("executeNodePress", "start")
    /\ IF "key" \in DOMAIN Top.arg
       THEN /\ Issue(Push(Top.arg["key"]))
            /\ Goto("push")
       ELSE /\ Issue(Delay(PressDelay(Exec.Options)))
            /\ Goto("sleep")
    /\ UNCHANGED <<script, pc, session, closes, warmup, Exec, clock>>

\* lines 59-61: button_push is called and awaited
executeNodePress ==
    /\ Running("executeNodePress", "start")
    /\ IF "key" \in DOMAIN Top.arg
       THEN /\ Issue(Push(Top.arg["key"]))
            /\ Goto("push")
            /\ pc' = pc
       ELSE /\ Return
            /\ UNCHANGED <<trace, inflight>>
    /\ UNCHANGED <<script, session, closes, warmup, Exec, clock>>

\* lines 61-62: the push completes, having taken the collaborator's time, and
\* asyncio.sleep(Interval) is awaited
executeNodePressPushed ==
    /\ Running("executeNodePress", "push")
    /\ Awaited \in inflight
    /\ Len(trace) < MaxTrace
    /\ trace' = Append(trace, Delay(PressDelay(Exec.Options)))
    /\ inflight' = (inflight \ {Awaited}) \cup {Len(trace) + 1}
    /\ \E dt \in 0..MaxDrift : clock' = clock + dt
    /\ Goto("sleep")
    /\ UNCHANGED <<script, pc, session, closes, warmup, Exec>>

\* faulty variant: the failure of the push is caught and the handler returns
executeNodePressFailedCaught ==
    /\ Running("executeNodePress", "push")
    /\ Awaited \in inflight
    /\ inflight' = inflight \ {Awaited}
    /\ Return
    /\ UNCHANGED <<script, session, closes, warmup, Exec, trace, clock>>

\* line 61: the push raises; nothing catches it up to and including _main
executeNodePressFailed ==
    /\ Running("executeNodePress", "push")
    /\ Awaited \in inflight
    /\ inflight' = inflight \ {Awaited}
    /\ stack' = <<>>
    /\ pc' = "raised"
    /\ UNCHANGED <<script, session, closes, warmup, Exec, trace, clock>>

\* faulty variant: the handler puts the default options back
executeNodePressSleptResets ==
    /\ Running("executeNodePress", "sleep")
    /\ Awaited \in inflight
    /\ inflight' = inflight \ {Awaited}
    /\ Elapse(trace[Awaited].sec)
    /\ Return
    /\ Exec' = [Exec EXCEPT !.Options = ScriptOptions]
    /\ UNCHANGED <<script, session, closes, warmup, trace>>

\* line 62: the delay completes and the handler returns
executeNodePressSlept ==
    /\ Running("executeNodePress", "sleep")
    /\ Awaited \in inflight
    /\ inflight' = inflight \ {Awaited}
    /\ Elapse(trace[Awaited].sec)
    /\ Return
    /\ UNCHANGED <<script, session, closes, warmup, Exec, trace>>

-----------------------------------------------------------------------------
(* ScriptExecutor.executeNodeSleep *)

\* lines 65-66: asyncio.sleep(sleep_content) is awaited
executeNodeSleep ==
    /\ Running("executeNodeSleep", "start")
    /\ Issue(Delay(Top.arg))
    /\ Goto("sleep")
    /\ UNCHANGED <<script, pc, session, closes, warmup, Exec, clock>>

\* line 66: the delay completes and the handler returns
executeNodeSleepSlept ==
    /\ Running("executeNodeSleep", "sleep")
    /\ Awaited \in inflight
    /\ inflight' = inflight \ {Awaited}
    /\ Elapse(trace[Awaited].sec)
    /\ Return
    /\ UNCHANGED <<script, session, closes, warmup, Exec, trace>>

-----------------------------------------------------------------------------
(* ScriptExecutor.executeNodeRepeat *)

\* faulty variant: the duration key is misspelt, so a duration is never seen
PolicyTypo(node_dict) ==
    IF "count" \in DOMAIN node_dict THEN "count"
    ELSE IF "durations" \in DOMAIN node_dict THEN "duration"
    ELSE "forever"

\* faulty variant: duration is tested before count
PolicyDurationFirst(node_dict) ==
    IF "duration" \in DOMAIN node_dict THEN "duration"
    ELSE IF "count" \in DOMAIN node_dict THEN "count"
    ELSE "forever"

\* lines 47, 50, 54: the termination policy of a repeat payload
Policy(node_dict) ==
    IF "count" \in DOMAIN node_dict THEN "count"
    ELSE IF "duration" \in DOMAIN node_dict THEN "duration"
    ELSE "forever"

\* faulty variant: an iteration still starts when the duration has just elapsed
DurationContinuesInclusive(now, Begin, duration) == now - Begin <= duration

\* faulty variant: the start time is not subtracted
DurationContinuesNoBegin(now, Begin, duration) == now < duration

\* line 52: the loop condition of the duration policy
DurationContinues(now, Begin, duration) == now - Begin < duration

\* faulty variant: one iteration too many
CountContinuesInclusive(i, count) == i <= count

\* line 48: the loop condition of the count policy, i iterations started
CountContinues(i, count) == i < count

\* faulty variant: the loop body runs once
ForeverContinuesOnce == FALSE

\* line 55: the loop condition of the unbounded policy
ForeverContinues == TRUE

\* faulty variant: the payload is not tested for its sequence
NoSequenceUntested(node_dict) == FALSE

\* line 42
NoSequence(node_dict) == "sequence" \notin DOMAIN node_dict

\* lines 42-51: no sequence, or the policy is chosen (Begin = time.time())
executeNodeRepeat ==
    /\ Running("executeNodeRepeat", "start")
    /\ IF NoSequence(Top.arg)
       THEN /\ Return
            /\ UNCHANGED clock
       ELSE /\ pc' = pc
            /\ IF Policy(Top.arg) = "duration"
               THEN \E dt \in 0..MaxDrift :
                       /\ clock' = clock + dt
                       /\ stack' = Append(Below, [Top EXCEPT !.pc = "duration",
                                                             !.Begin = clock + dt])
               ELSE /\ Goto(Policy(Top.arg))
                    /\ UNCHANGED clock
    /\ UNCHANGED <<script, session, closes, warmup, Exec, trace, inflight>>

\* lines 48-49
executeNodeRepeatCount ==
    /\ Running("executeNodeRepeat", "count")
    /\ IF CountContinues(Top.i, Top.arg["count"])
       THEN /\ CallFrom([Top EXCEPT !.i = @ + 1],
                        Frame("executeSequence", Top.arg["sequence"]))
            /\ pc' = pc
       ELSE Return
    /\ UNCHANGED <<script, session, closes, warmup, Exec, trace, inflight, clock>>

\* lines 52-53
executeNodeRepeatDuration ==
    /\ Running("executeNodeRepeat", "duration")
    /\ \E dt \in 0..MaxDrift :
          /\ clock' = clock + dt
          /\ IF DurationContinues(clock + dt, Top.Begin, Top.arg["duration"])
             THEN /\ CallFrom([Top EXCEPT !.chk = clock + dt, !.i = 1],
                              Frame("executeSequence", Top.arg["sequence"]))
                  /\ pc' = pc
             ELSE Return
    /\ UNCHANGED <<script, session, closes, warmup, Exec, trace, inflight>>

\* lines 55-56
executeNodeRepeatForever ==
    /\ Running("executeNodeRepeat", "forever")
    /\ IF ForeverContinues
       THEN /\ Call(Frame("executeSequence", Top.arg["sequence"]))
            /\ pc' = pc
       ELSE Return
    /\ UNCHANGED <<script, session, closes, warmup, Exec, trace, inflight, clock>>

-----------------------------------------------------------------------------
Next ==
    \/ mainConnect
    \/ mainWarmup
    \/ mainWarmupDone
    \/ mainSetup
    \/ mainRun
    \/ mainClose
    \/ executeSequenceNode
    \/ executeSequenceReturn
    \/ executeNodePress
    \/ executeNodePressPushed
    \/ executeNodePressFailed
    \/ executeNodePressSlept
    \/ executeNodeSleep
    \/ executeNodeSleepSlept
    \/ executeNodeRepeat
    \/ executeNodeRepeatCount
    \/ executeNodeRepeatDuration
    \/ executeNodeRepeatForever

Spec == Init /\ [][Next]_vars

-----------------------------------------------------------------------------
(* Runs in which the task running _main may be cancelled *)

\* faulty variant: the task can be interrupted between any two steps
SuspendedAnywhere == pc \in {"warming", "exec"}

\* lines 61, 62, 66, 89: the task is suspended in an awaited push or delay
Suspended ==
    \/ pc = "warming"
    \/ pc = "exec" /\ inflight # {}

\* the event loop throws CancelledError into the suspended task: the awaited
\* call is abandoned and the exception leaves _main, which has no handler
cancel ==
    /\ Suspended
    /\ pc' = "cancelled"
    /\ stack' = <<>>
    /\ inflight' = {}
    /\ UNCHANGED <<script, session, closes, warmup, Exec, trace, clock>>

NextCancel ==
    \/ Next
    \/ cancel

SpecCancel == Init /\ [][NextCancel]_vars

-----------------------------------------------------------------------------
(* Runs in which every step that can be taken is taken and the clock moves *)

\* repeat nodes of every policy, over inner sequences with and without effects
LiveRepeats ==
    {[repeat |-> [count |-> 1]],
     [repeat |-> [sequence |-> <<PressB>>, count |-> MaxCount]],
     [repeat |-> [sequence |-> <<PressB>>, duration |-> 12]],
     [repeat |-> [sequence |-> <<Unknown>>, duration |-> 12]],
     [repeat |-> [sequence |-> <<>>, duration |-> 0]],
     [repeat |-> [sequence |-> <<PressB, Sleep1>>, count |-> 1, duration |-> 12]],
     [repeat |-> [sequence |-> <<[repeat |-> [sequence |-> <<PressB>>, count |-> 2]]>>,
                  duration |-> 12]],
     [repeat |-> [sequence |-> <<[repeat |-> [sequence |-> <<PressNoKey>>,
                                              duration |-> 12]]>>,
                  count |-> MaxCount]],
     [repeat |-> [sequence |-> <<PressB>>]],
     [repeat |-> [sequence |-> <<Unknown>>]]}

LiveNodes == {PressA, PressNoKey, Sleep1, Unknown, PressAndSleep} \cup LiveRepeats

\* a node alone, or followed by a press
LiveSeqs == {<<>>} \cup {<<n>> : n \in LiveNodes} \cup {<<n, PressA>> : n \in LiveNodes}

LiveScripts ==
         {[sequence |-> s] : s \in LiveSeqs}
    \cup {[options |-> [interval |-> 12], sequence |-> <<PressA, Sleep1>>]}
    \cup {EmptyDict}

InitLive ==
    /\ script \in LiveScripts
    /\ pc = "connect"
    /\ session = "none"
    /\ closes = 0
    /\ warmup = "none"
    /\ Exec = ScriptExecutor
    /\ stack = <<>>
    /\ trace = <<>>
    /\ inflight = {}
    /\ clock = 0

\* line 52: a later time.time() returns a later time
TimePasses == executeNodeRepeatDuration /\ clock' > clock

\* the event loop runs whatever is ready, awaited calls complete, time passes
LiveSpec == InitLive /\ [][Next]_vars /\ WF_vars(Next) /\ SF_vars(TimePasses)

-----------------------------------------------------------------------------
(* Reference semantics used by the properties: the effects a sequence      *)
(* produces when it runs to completion, for sequences whose repeats all    *)
(* terminate by count (or have no sequence).                               *)

IsPrefix(s, t) == Len(s) <= Len(t) /\ s = SubSeq(t, 1, Len(s))

RECURSIVE Times(_, _)
Times(s, n) == IF n <= 0 THEN <<>> ELSE s \o Times(s, n - 1)

RECURSIVE SeqEffects(_, _)
NodeEffects(node, interval) ==
    IF "press" \in DOMAIN node
    THEN IF "key" \in DOMAIN node["press"]
         THEN <<Push(node["press"]["key"]), Delay(interval)>>
         ELSE <<>>
    ELSE IF "repeat" \in DOMAIN node
    THEN IF "sequence" \in DOMAIN node["repeat"] /\ "count" \in DOMAIN node["repeat"]
         THEN Times(SeqEffects(node["repeat"]["sequence"], interval),
                    node["repeat"]["count"])
         ELSE <<>>
    ELSE IF "sleep" \in DOMAIN node
    THEN <<Delay(node["sleep"])>>
    ELSE <<>>

SeqEffects(seq, interval) ==
    IF Len(seq) = 0 THEN <<>>
    ELSE NodeEffects(Head(seq), interval) \o SeqEffects(Tail(seq), interval)

\* every repeat that acts in seq has a sequence only together with a count
RECURSIVE Timeless(_)
Timeless(seq) ==
    \A k \in 1..Len(seq) :
        ("press" \notin DOMAIN seq[k] /\ "repeat" \in DOMAIN seq[k]
            /\ "sequence" \in DOMAIN seq[k]["repeat"])
        => /\ "count" \in DOMAIN seq[k]["repeat"]
           /\ Timeless(seq[k]["repeat"]["sequence"])

\* the effects issued since frame f was entered
Since(f) == SubSeq(trace, f.t0 + 1, Len(trace))
SinceNext(f) == SubSeq(trace', f.t0 + 1, Len(trace'))

\* the step makes the top frame return normally to its caller
Returns == Len(stack') = Len(stack) - 1 /\ pc' # "raised"

Interval == Exec.Options.Interval

-----------------------------------------------------------------------------
(* C1 (amended): a sequence issues its nodes' effects strictly left to    *)
(* right.  No effect is issued while an earlier one is still in flight.    *)
(* While an executeSequence frame (top-level or nested in a repeat) waits  *)
(* for its i-th node, the frame above it is the handler of that node's     *)
(* first recognized tag with that tag's payload.  For a sequence with      *)
(* count-bounded repeats only: while it waits for its i-th node the        *)
(* effects since its entry extend those of nodes 1..i-1 and are a prefix   *)
(* of those of nodes 1..i; when it is running again they are exactly those *)
(* of nodes 1..i and nothing is in flight; a run that reaches the close    *)
(* has issued exactly the effects of the whole script.  A node without a   *)
(* recognized tag produces no effect (a node with one may produce none).   *)
C1_InOrder ==
    /\ inflight \subseteq {Len(trace)}
    /\ \A d \in 1..Len(stack) :
          stack[d].fn = "executeSequence" =>
             LET f == stack[d]
                 upto == SeqEffects(SubSeq(f.arg, 1, f.i), Interval)
                 before == SeqEffects(SubSeq(f.arg, 1, f.i - 1), Interval)
             IN  /\ d < Len(stack) =>
                        /\ f.i >= 1
                        /\ stack[d + 1].fn = Handler(f.arg[f.i])
                        /\ stack[d + 1].arg = Payload(f.arg[f.i])
                 /\ (d = Len(stack) /\ f.i >= 1 /\ Handler(f.arg[f.i]) = "")
                        => Len(trace) = f.tn
                 /\ Timeless(f.arg) =>
                        IF d = Len(stack)
                        THEN Since(f) = upto /\ inflight = {}
                        ELSE IsPrefix(before, Since(f)) /\ IsPrefix(Since(f), upto)
    /\ (pc \in {"close", "done"} /\ "sequence" \in DOMAIN script
            /\ Timeless(script["sequence"]))
       => trace = SeqEffects(script["sequence"], Interval)

(* C1 as stated: the above, and only nodes carrying none of press, repeat, *)
(* sleep produce no effect: a node whose handling is over without any      *)
(* effect issued carries no recognized tag.                                *)
C1_Original ==
    /\ C1_InOrder
    /\ (pc = "exec" /\ stack # <<>> /\ Top.fn = "executeSequence" /\ Top.i >= 1
            /\ Len(trace) = Top.tn)
       => Handler(Top.arg[Top.i]) = ""

\* a two-node sequence of different kinds has run to its end, in order
C1_Witness ==
    /\ pc = "done"
    /\ script = [sequence |-> <<Sleep2, PressA>>]
    /\ trace = <<Delay(20), Push("A"), Delay(5)>>

(* C2: when the top-level run has ended, normally or by a failure that     *)
(* propagated out of executeSequence, the session was closed exactly once. *)
C2_ClosedExactlyOnce == pc \in {"done", "raised"} => closes = 1

(* C3: a repeat with a sequence and count = N >= 0 runs its inner sequence *)
(* exactly N complete times back to back and then returns; with N = 0 it   *)
(* returns without invoking any inner node.  Each step of the count loop   *)
(* either starts iteration i+1 < = N after i complete ones, or returns     *)
(* after exactly N of them with no other effect.                           *)
C3_CountRepeat ==
    [][ (/\ Running("executeNodeRepeat", "count")
         /\ Top.arg["count"] >= 0
         /\ Timeless(Top.arg["sequence"]))
        => LET once == SeqEffects(Top.arg["sequence"], Interval)
           IN  IF Returns
               THEN /\ Since(Top) = Times(once, Top.arg["count"])
                    /\ trace' = trace
               ELSE /\ Top.i < Top.arg["count"]
                    /\ Since(Top) = Times(once, Top.i)
                    /\ Len(stack') = Len(stack) + 1
                    /\ stack'[Len(stack')].fn = "executeSequence"
                    /\ stack'[Len(stack')].arg = Top.arg["sequence"]
                    /\ stack'[Len(stack')].i = 0
      ]_vars

\* a count repeat has returned after two iterations of [press B]; one with
\* count 0 has returned with nothing issued
C3_Witness ==
    /\ pc = "done"
    /\ \/ /\ script = [sequence |-> <<[repeat |-> [sequence |-> <<PressB>>, count |-> 2]]>>]
          /\ trace = <<Push("B"), Delay(5), Push("B"), Delay(5)>>
       \/ /\ script = [sequence |-> <<[repeat |-> [sequence |-> <<PressB>>, count |-> 0]]>>]
          /\ trace = <<>>

(* C4: a repeat with a sequence and a duration D (no count) starts another *)
(* iteration whenever the time elapsed since its start is below D, and     *)
(* whenever it returns the elapsed time is >= D.                           *)
C4_DurationRepeat ==
    [][ Running("executeNodeRepeat", "duration")
        => IF Returns
           THEN clock' - Top.Begin >= Top.arg["duration"]
           ELSE /\ clock' - Top.Begin < Top.arg["duration"]
                /\ Len(stack') = Len(stack) + 1
                /\ stack'[Len(stack')].fn = "executeSequence"
                /\ stack'[Len(stack')].arg = Top.arg["sequence"]
      ]_vars

\* a duration repeat over [press B] has returned after at least one iteration
C4_Witness ==
    /\ pc = "done"
    /\ script = [sequence |-> <<[repeat |-> [sequence |-> <<PressB>>, duration |-> 12]]>>]
    /\ Len(trace) >= 2
    /\ clock >= WarmupDelay + 12

(* C5: a repeat with a sequence and neither count nor duration never       *)
(* returns normally: while its frame is on the stack, every step either    *)
(* raises a failure or leaves that frame and all enclosing frames in       *)
(* place and unchanged, so no later node of an enclosing sequence runs and *)
(* the close is not reached.                                               *)
C5_UnboundedRepeat ==
    [][ \A d \in 1..Len(stack) :
          (stack[d].fn = "executeNodeRepeat" /\ stack[d].pc = "forever")
          => \/ pc' = "raised"
             \/ /\ pc' = "exec"
                /\ closes' = 0
                /\ Len(stack') >= d
                /\ \A k \in 1..d : /\ stack'[k].fn = stack[k].fn
                                   /\ stack'[k].pc = stack[k].pc
                                   /\ stack'[k].i = stack[k].i
      ]_vars

\* an unbounded repeat followed by another node is in its third iteration
C5_Witness ==
    /\ script = [sequence |-> <<[repeat |-> [sequence |-> <<PressB>>]], PressA>>]
    /\ Len(trace) >= 5
    /\ pc = "exec"
    /\ stack[1].i = 1

(* C6: a press node with key K issues exactly one push of K, and only once *)
(* that push has completed exactly one delay of Options.Interval; the      *)
(* handler returns, letting the next node begin, only when that delay has  *)
(* completed, having issued nothing else.                                  *)
C6_Press ==
    [][ (/\ pc = "exec" /\ stack # <<>>
         /\ Top.fn = "executeNodePress"
         /\ "key" \in DOMAIN Top.arg)
        => LET push == Push(Top.arg["key"])
               delay == Delay(Exec.Options.Interval)
           IN  \/ pc' = "raised"
               \/ /\ Returns
                  /\ Top.pc = "sleep"
                  /\ SinceNext(Top) = <<push, delay>>
                  /\ inflight' = {}
               \/ /\ Len(stack') = Len(stack)
                  /\ stack'[Len(stack')].pc = "push"
                  /\ SinceNext(Top) = <<push>>
                  /\ inflight' = {Len(trace')}
               \/ /\ Len(stack') = Len(stack)
                  /\ stack'[Len(stack')].pc = "sleep"
                  /\ SinceNext(Top) = <<push, delay>>
                  /\ inflight' = {Len(trace')}
      ]_vars

\* a press of A under a script interval of 1.2 s has returned
C6_Witness ==
    /\ script = [options |-> [interval |-> 12], sequence |-> <<PressA, Sleep2>>]
    /\ trace = <<Push("A"), Delay(12)>>
    /\ inflight = {}
    /\ Len(stack) = 1

Nine ==
    <<Push("A"), Delay(5), Delay(20),
      Push("B"), Delay(5), Push("B"), Delay(5), Push("B"), Delay(5)>>

(* C7: for the script [press A, sleep 2, repeat{[press B], count 3}] with  *)
(* default options the effect trace is always a prefix of push(A), 0.5,    *)
(* 2, push(B), 0.5, push(B), 0.5, push(B), 0.5 and is exactly these nine   *)
(* effects once the sequence has completed.                                *)
C7_Scenario ==
    script = Script7 =>
        /\ IsPrefix(trace, Nine)
        /\ pc \in {"close", "done"} => trace = Nine

C7_Witness == script = Script7 /\ pc = "done" /\ Len(trace) = 9 /\ closes = 1

(* C8: a script without a sequence key executes no node (no push, no       *)
(* delay, no executor frame) and goes from the run step to the close.      *)
C8_NoSequence ==
    "sequence" \notin DOMAIN script =>
        /\ trace = <<>>
        /\ stack = <<>>
        /\ inflight = {}
        /\ pc \in {"connect", "warmup", "warming", "setup", "run", "close", "done"}
        /\ clock \in {0, WarmupDelay}
        /\ pc = "done" => (closes = 1 /\ session = "closed")

C8_Witness ==
    /\ "sequence" \notin DOMAIN script
    /\ "options" \in DOMAIN script
    /\ pc = "done"
    /\ closes = 1

(* C9: fromDict(data) yields data["interval"] when that key is present and *)
(* 0.5 otherwise, whatever other keys there are: on the three documented   *)
(* inputs, and on the options block of every script once _main has applied *)
(* it.                                                                     *)
C9_FromDict ==
    /\ fromDict(EmptyDict).Interval = 5
    /\ fromDict([interval |-> 12]).Interval = 12
    /\ fromDict([unrelated |-> 1]).Interval = 5
    /\ (pc \notin {"connect", "warmup", "warming", "setup"}
            /\ "options" \in DOMAIN script)
       => Exec.Options.Interval =
             IF "interval" \in DOMAIN script["options"]
             THEN script["options"]["interval"]
             ELSE 5

C9_Witness ==
    /\ pc = "run"
    /\ "options" \in DOMAIN script
    /\ DOMAIN script["options"] = {"interval", "unrelated"}
    /\ Exec.Options.Interval = 12

(* C10: the warm-up delay starts only once the session is established, and *)
(* no node executes (no frame, no push, no delay) before the 10 s warm-up  *)
(* has completed.                                                          *)
C10_Warmup ==
    /\ warmup # "none" => session # "none"
    /\ (trace # <<>> \/ stack # <<>> \/ pc \in {"exec", "raised"})
       => (warmup = "done" /\ clock >= 100)

C10_Witness ==
    /\ warmup = "done"
    /\ Len(trace) = 1
    /\ inflight = {1}
    /\ clock = 100

(* C11: a push that fails is not caught anywhere: the step that ends an    *)
(* awaited push either issues the press node's interval delay (the push    *)
(* succeeded) or leaves every enclosing sequence and repeat at once with   *)
(* nothing issued - no retry, no interval delay - and after it no step is  *)
(* taken, so no later node or repetition has any effect.                   *)
C11_FailurePropagates ==
    [][ /\ pc # "raised"
        /\ Running("executeNodePress", "push")
           => \/ /\ pc' = "exec"
                 /\ Len(stack') = Len(stack)
                 /\ trace' = Append(trace, Delay(Interval))
              \/ /\ pc' = "raised"
                 /\ stack' = <<>>
                 /\ trace' = trace
                 /\ inflight' = {}
                 /\ closes' = closes
        /\ pc' = "raised" => Running("executeNodePress", "push")
      ]_vars

\* the push of the second iteration of an unbounded repeat has failed
C11_Witness ==
    /\ pc = "raised"
    /\ script = [sequence |-> <<[repeat |-> [sequence |-> <<PressB>>]], PressA>>]
    /\ trace = <<Push("B"), Delay(5), Push("B")>>
    /\ stack = <<>>

-----------------------------------------------------------------------------
\* the recognized tags a node carries
Tags(node) == DOMAIN node \cap {"press", "repeat", "sleep"}

\* the effects issued since frame f's for loop last bound a node
SinceNode(f) == SubSeq(trace, f.tn + 1, Len(trace))

(* C12: for a node carrying more than one of press, repeat, sleep, the one *)
(* handler run is that of press if present, else that of repeat, with that *)
(* tag's payload; the node's effects are those of the node reduced to the  *)
(* winning tag, so the other payloads are never acted on, also when the    *)
(* winning handler does nothing.                                           *)
C12_Priority ==
    \A d \in 1..Len(stack) :
       (/\ stack[d].fn = "executeSequence"
        /\ stack[d].i >= 1
        /\ Cardinality(Tags(stack[d].arg[stack[d].i])) > 1)
       => LET f == stack[d]
              node == f.arg[f.i]
              win == IF "press" \in DOMAIN node THEN "press" ELSE "repeat"
              only == [t \in {win} |-> node[win]]
          IN  IF d < Len(stack)
              THEN /\ stack[d + 1].fn =
                         (IF win = "press" THEN "executeNodePress"
                                           ELSE "executeNodeRepeat")
                   /\ stack[d + 1].arg = node[win]
                   /\ Timeless(<<only>>)
                         => IsPrefix(SinceNode(f), NodeEffects(only, Interval))
              ELSE Timeless(<<only>>)
                         => SinceNode(f) = NodeEffects(only, Interval)

\* a keyless press with a sleep tag, then a press with a repeat tag, have run:
\* neither the sleep nor the repeat was acted on
C12_Witness ==
    /\ script = [sequence |-> <<NoKeyAndSleep, PressAndRepeat>>]
    /\ pc = "done"
    /\ trace = <<Push("A"), Delay(5)>>

C14_CountFirst ==
    [][ \A d \in 1..Len(stack) :
          (stack[d].fn = "executeNodeRepeat" /\ "sequence" \in DOMAIN stack[d].arg)
          => LET f == stack[d]
                 chosen == IF "count" \in DOMAIN f.arg THEN "count"
                           ELSE IF "duration" \in DOMAIN f.arg THEN "duration"
                           ELSE "forever"
             IN  /\ f.pc \in {"start", chosen}
                 /\ (f.pc = "start" /\ d = Len(stack))
                       => /\ Len(stack') = d
                          /\ stack'[d].pc = chosen
                          /\ chosen # "duration" => clock' = clock
                 /\ (f.pc = "count" /\ d = Len(stack))
                       => /\ clock' = clock
                          /\ Returns <=> f.i >= f.arg["count"]
                          /\ ~Returns => /\ Len(stack') = d + 1
                                         /\ stack'[d].pc = "count"
                                         /\ stack'[d].i = f.i + 1
      ]_vars

\* count 2 with duration 0: two iterations were run
C14_Witness ==
    /\ script = [sequence |-> <<[repeat |-> [sequence |-> <<PressB>>,
                                            count |-> 2, duration |-> 0]]>>]
    /\ pc = "done"
    /\ trace = Times(<<Push("B"), Delay(5)>>, 2)

(* C15: a repeat whose payload has no sequence returns at once, whatever   *)
(* else the payload holds: nothing is issued, no time is read, and control *)
(* is back in the enclosing sequence, which goes on with its next node.    *)
C15_RepeatWithoutSequence ==
    [][ (/\ Running("executeNodeRepeat", "start")
         /\ "sequence" \notin DOMAIN Top.arg)
        => /\ Returns
           /\ stack' = Below
           /\ Below # <<>>
           /\ Below[Len(Below)].fn = "executeSequence"
           /\ trace' = trace
           /\ inflight' = inflight
           /\ clock' = clock
      ]_vars

\* the node after a repeat with a duration and no sequence has executed
C15_Witness ==
    /\ script = [sequence |-> <<[repeat |-> [duration |-> 12]], PressA>>]
    /\ pc = "done"
    /\ trace = <<Push("A"), Delay(5)>>
    /\ clock <= WarmupDelay + DefaultInterval + MaxDrift

\* a press node whose payload has no key
Keyless(node) == "press" \in DOMAIN node /\ "key" \notin DOMAIN node["press"]

\* the sequence without its keyless press nodes
WithoutKeyless(seq) == SelectSeq(seq, LAMBDA n : ~Keyless(n))

(* C16: a press whose payload has no key returns at once: no push and no   *)
(* delay are issued and no time passes.  The effects of a whole run are    *)
(* those of the script with its keyless press nodes taken out.             *)
C16_PressWithoutKey ==
    [][ /\ (/\ Running("executeNodePress", "start")
            /\ "key" \notin DOMAIN Top.arg)
           => /\ Returns
              /\ stack' = Below
              /\ trace' = trace
              /\ inflight' = inflight
              /\ clock' = clock
        /\ (/\ pc = "close"
            /\ "sequence" \in DOMAIN script
            /\ Timeless(script["sequence"]))
           => trace = SeqEffects(WithoutKeyless(script["sequence"]), Interval)
      ]_vars

\* a keyless press between two presses has left no effect
C16_Witness ==
    /\ script = [sequence |-> <<PressNoKey, PressA>>]
    /\ pc = "done"
    /\ trace = <<Push("A"), Delay(5)>>

\* the interval the script asks for
ScriptInterval ==
    IF "options" \in DOMAIN script /\ "interval" \in DOMAIN script["options"]
    THEN script["options"]["interval"]
    ELSE DefaultInterval

(* C17: the executor's options and controller state are set before the     *)
(* first node runs and no step after that changes them.  The interval is   *)
(* the script's options.interval, or 0.5 s without one, and the delay that *)
(* follows each push is that one value.                                    *)
C17_OptionsFixed ==
    [][ /\ pc # "setup" => Exec' = Exec
        /\ pc \in {"run", "exec", "close", "done", "raised"}
              => /\ Exec.Options = [Interval |-> ScriptInterval]
                 /\ Exec.CtrlState = "controller_state"
        /\ \A k \in 2..Len(trace') :
              trace'[k - 1].op = "push" => trace'[k] = Delay(ScriptInterval)
      ]_vars

\* two presses of one run were both followed by the script's interval
C17_Witness ==
    /\ script = [options |-> [interval |-> 12],
                 sequence |-> <<[repeat |-> [sequence |-> <<PressB>>, count |-> 2]]>>]
    /\ pc = "done"
    /\ trace = Times(<<Push("B"), Delay(12)>>, 2)
    /\ Exec.Options.Interval = 12

\* every repeat with a sequence, at any depth, has a count or a duration
RECURSIVE AllBounded(_)
AllBounded(seq) ==
    \A k \in 1..Len(seq) :
       ("repeat" \in DOMAIN seq[k] /\ "sequence" \in DOMAIN seq[k]["repeat"])
       => /\ \/ "count" \in DOMAIN seq[k]["repeat"]
             \/ "duration" \in DOMAIN seq[k]["repeat"]
          /\ AllBounded(seq[k]["repeat"]["sequence"])

(* C18: when every repeat with a sequence has a count or a duration, the   *)
(* awaited calls complete and the clock advances, the run of the sequence  *)
(* returns and the session is closed; a run that ends otherwise has had a  *)
(* push fail.  Only a repeat without count and duration can keep a run     *)
(* from ending.                                                            *)
C18_Terminates ==
    ("sequence" \in DOMAIN script => AllBounded(script["sequence"]))
    => <>(\/ pc = "raised"
          \/ /\ pc = "done"
             /\ stack = <<>>
             /\ closes = 1
             /\ session = "closed")

\* a duration repeat over a sequence without effects has ended and the run closed
C18_Witness ==
    /\ script = [sequence |-> <<[repeat |-> [sequence |-> <<Unknown>>, duration |-> 12]],
                                PressA>>]
    /\ pc = "done"
    /\ closes = 1
    /\ trace = <<Push("A"), Delay(5)>>

\* a node that issues nothing and reads no time: no recognised tag, a press
\* without a key, or a repeat without a sequence
EffectFreeNode(node) ==
    \/ Tags(node) = {}
    \/ Keyless(node)
    \/ /\ "press" \notin DOMAIN node
       /\ "repeat" \in DOMAIN node
       /\ "sequence" \notin DOMAIN node["repeat"]

EffectFree(seq) == \A k \in 1..Len(seq) : EffectFreeNode(seq[k])

\* the executor is inside an awaited push, press-interval delay or sleep delay
AtAwait ==
    /\ stack # <<>>
    /\ \/ Top.fn = "executeNodePress" /\ Top.pc \in {"push", "sleep"}
       \/ Top.fn = "executeNodeSleep" /\ Top.pc = "sleep"

(* C19: while the sequence runs, the task is suspended exactly when the    *)
(* executor is inside an awaited push, press-interval delay or sleep-node  *)
(* delay.  An unbounded repeat over a sequence without effects starts      *)
(* iteration after iteration and never reaches such a point: no step of it *)
(* issues anything, a cancellation is never delivered, and the session is  *)
(* never closed.                                                           *)
C19_NoSuspensionPoint ==
    [][ /\ pc = "exec" => (inflight # {} <=> AtAwait)
        /\ pc' = "cancelled" => (pc = "warming" \/ (pc = "exec" /\ AtAwait))
        /\ \A d \in 1..Len(stack) :
              (/\ stack[d].fn = "executeNodeRepeat"
               /\ stack[d].pc = "forever"
               /\ EffectFree(stack[d].arg["sequence"]))
              => /\ ~AtAwait
                 /\ pc' = "exec"
                 /\ Len(stack') >= d
                 /\ stack'[d] = stack[d]
                 /\ d = Len(stack) => Len(stack') = d + 1
                 /\ trace' = trace
                 /\ inflight' = {}
                 /\ closes' = 0
                 /\ session' = "open"
      ]_vars

\* an iteration over a keyless press and a repeat without a sequence is at its
\* end, the press before the repeat having completed
C19_Witness ==
    /\ script = [sequence |-> <<PressA, [repeat |-> [sequence |->
                     <<PressNoKey, [repeat |-> [count |-> 1]]>>]]>>]
    /\ pc = "exec"
    /\ Len(stack) = 3
    /\ stack[2].pc = "forever"
    /\ stack[3].fn = "executeSequence"
    /\ stack[3].i = 2
    /\ trace = <<Push("A"), Delay(5)>>
    /\ inflight = {}

====
